---- MODULE Spec2Model ----
(***************************************************************************)
(* NeuroScout: the saved-projects store (src/services/storage.ts) over the *)
(* browser's localStorage.                                                 *)
(*                                                                         *)
(* The persisted value is a TEXT (a sequence of JSON tokens) or absent.    *)
(* JSON.stringify and JSON.parse are modelled as what they do on tokens,   *)
(* and every exception of the code (localStorage access, JSON.parse, a     *)
(* property read on null, a missing method) as a `threw` flag that the     *)
(* enclosing try/catch of the source either catches or lets through.       *)
(***************************************************************************)
EXTENDS Integers, Sequences, FiniteSets, TLC

VARIABLES
    storage,    \* localStorage[STORAGE_KEY]: [present, text]
    medium,     \* state of the storage medium: "ok", "full" or "denied"
    call,       \* the store operation that ran last: [op, id, title]
    ret,        \* what that operation handed to its caller
    pre,        \* localStorage[STORAGE_KEY] when that operation started
    writes,     \* number of localStorage.setItem calls that operation made
    tabs,       \* two browser tabs on the same key: each tab's operation in progress
    hist,       \* history of the tabs' operations (ids acknowledged, ids removed)
    app,        \* the state of the App component (App.tsx) and its last event
    arch,       \* the state of the ArchitectureView component
    calls,      \* the provider requests of each capability function's current call
    widget,     \* the state of the ChatWidget component
    abs,        \* the abstract sequence the store's calls are compared with
    prev        \* the ArchitectureView instance that left the screen, and its calls

storeVars == <<storage, medium, call, ret, pre, writes>>
tabVars == <<tabs, hist>>
appVars == <<app>>
archVars == <<arch, calls, prev>>
widgetVars == <<widget>>
seqVars == <<abs>>
nonStoreVars == <<tabs, hist, app, arch, calls, widget, abs, prev>>
vars == <<storage, medium, call, ret, pre, writes, tabs, hist, app, arch, calls, widget, abs, prev>>

----------------------------------------------------------------------------
(* Bounds of the model *)

MaxIds == 3

Ids == 1..MaxIds

\* the payload of an idea, opaque to the store
Titles == {"X", "Y"}

----------------------------------------------------------------------------
(* ProjectIdea: an id and an opaque payload (title stands for the rest) *)

ProjectIdea(i, t) == [kind |-> "object", id |-> i, title |-> t]

Ideas == {ProjectIdea(i, t) : i \in Ids, t \in Titles}

\* a null element of a parsed array
NullElem == [kind |-> "null", id |-> 0, title |-> ""]

(* The values JSON.parse can return *)
JArray(elems) == [kind |-> "array", elems |-> elems]
JNull == [kind |-> "null", elems |-> <<>>]
JNumber == [kind |-> "number", elems |-> <<>>]
JObject == [kind |-> "object", elems |-> <<>>]

(* Tokens of a JSON text *)
Tok(t) == [t |-> t, id |-> 0, title |-> ""]
LB == Tok("[")
RB == Tok("]")
Comma == Tok(",")
TNull == Tok("null")
TNum == Tok("num")
TWord == Tok("word")
TObj(e) == [t |-> "obj", id |-> e.id, title |-> e.title]

(* localStorage[STORAGE_KEY] *)
Absent == [present |-> FALSE, text |-> <<>>]
Stored(text) == [present |-> TRUE, text |-> text]

----------------------------------------------------------------------------
(* JSON.stringify of an array of ideas (storage.ts:21, :33) *)

StringifyElem(e) == IF e.kind = "null" THEN TNull ELSE TObj(e)

\* mutant: the elements are joined without a separator
RECURSIVE StringifyElems_NoComma(_)
StringifyElems_NoComma(elems) ==
    IF elems = <<>> THEN <<>>
    ELSE <<StringifyElem(Head(elems))>> \o StringifyElems_NoComma(Tail(elems))

RECURSIVE StringifyElems(_)
StringifyElems(elems) ==
    IF elems = <<>> THEN <<>>
    ELSE IF Len(elems) = 1 THEN <<StringifyElem(Head(elems))>>
    ELSE <<StringifyElem(Head(elems)), Comma>> \o StringifyElems(Tail(elems))

Stringify(elems) == <<LB>> \o StringifyElems(elems) \o <<RB>>

(* JSON.parse of a text (storage.ts:8): [ok, v]; ok = FALSE is a SyntaxError *)

IsValueTok(k) == k.t \in {"obj", "null"}

ParseElem(k) == IF k.t = "null" THEN NullElem ELSE ProjectIdea(k.id, k.title)

\* the tokens between the brackets: value (, value)*
ElemListOk(inner) ==
    \/ inner = <<>>
    \/ /\ Len(inner) % 2 = 1
       /\ \A i \in 1..Len(inner) :
            IF i % 2 = 1 THEN IsValueTok(inner[i]) ELSE inner[i] = Comma

ParseElems(inner) == [i \in 1..((Len(inner) + 1) \div 2) |-> ParseElem(inner[2 * i - 1])]

SyntaxError == [ok |-> FALSE, v |-> JNull]

Parse(text) ==
    IF Len(text) = 1 /\ text[1] = TNull THEN [ok |-> TRUE, v |-> JNull]
    ELSE IF Len(text) = 1 /\ text[1] = TNum THEN [ok |-> TRUE, v |-> JNumber]
    ELSE IF Len(text) = 1 /\ text[1].t = "obj" THEN [ok |-> TRUE, v |-> JObject]
    ELSE IF Len(text) >= 2 /\ text[1] = LB /\ text[Len(text)] = RB
            /\ ElemListOk(SubSeq(text, 2, Len(text) - 1))
         THEN [ok |-> TRUE, v |-> JArray(ParseElems(SubSeq(text, 2, Len(text) - 1)))]
    ELSE SyntaxError

----------------------------------------------------------------------------
(* localStorage: reaching it throws when storage is denied (SecurityError), *)
(* setItem also throws when the quota is exceeded                           *)

Media == {"ok", "full", "denied"}

GetItem(st, med) == [threw |-> med = "denied", data |-> st]

SetItem(st, med, text) ==
    IF med = "ok" THEN [threw |-> FALSE, storage |-> Stored(text)]
    ELSE [threw |-> TRUE, storage |-> st]

----------------------------------------------------------------------------
(* getSavedProjects (storage.ts:5-13) *)

EmptyArray == JArray(<<>>)

\* the body of the try block, lines 7-8; `data ? ... : []` takes null and ""
\* as falsy
GetSavedProjectsTry(st, med) ==
    LET got == GetItem(st, med) IN
    IF got.threw THEN [threw |-> TRUE, v |-> JNull]
    ELSE IF ~got.data.present \/ got.data.text = <<>> THEN [threw |-> FALSE, v |-> EmptyArray]
    ELSE LET p == Parse(got.data.text) IN
         IF p.ok THEN [threw |-> FALSE, v |-> p.v] ELSE [threw |-> TRUE, v |-> JNull]

\* mutant: the catch block of lines 9-12 is missing
GetSavedProjects_NoCatch(st, med) == GetSavedProjectsTry(st, med)

GetSavedProjects(st, med) ==
    LET r == GetSavedProjectsTry(st, med) IN
    IF r.threw THEN [threw |-> FALSE, v |-> EmptyArray] ELSE r

(* saved.some(p => p.id === id) (storage.ts:18, :41): a TypeError when saved *)
(* has no method `some` or when an element visited is null                  *)

RECURSIVE SomeElems(_, _)
SomeElems(elems, id) ==
    IF elems = <<>> THEN [threw |-> FALSE, b |-> FALSE]
    ELSE IF Head(elems).kind = "null" THEN [threw |-> TRUE, b |-> FALSE]
    ELSE IF Head(elems).id = id THEN [threw |-> FALSE, b |-> TRUE]
    ELSE SomeElems(Tail(elems), id)

\* mutant: the predicate compares p.id with the idea instead of its id
Some_NeverFinds(saved, id) ==
    IF saved.kind # "array" \/ \E i \in 1..Len(saved.elems) : saved.elems[i].kind = "null"
    THEN [threw |-> TRUE, b |-> FALSE]
    ELSE [threw |-> FALSE, b |-> FALSE]

Some(saved, id) ==
    IF saved.kind # "array" THEN [threw |-> TRUE, b |-> FALSE]
    ELSE SomeElems(saved.elems, id)

(* saved.filter(p => p.id !== id) (storage.ts:32): visits every element *)

RECURSIVE FilterElems(_, _)
FilterElems(elems, id) ==
    IF elems = <<>> THEN <<>>
    ELSE IF Head(elems).id # id THEN <<Head(elems)>> \o FilterElems(Tail(elems), id)
    ELSE FilterElems(Tail(elems), id)

\* mutant: only the first item of the id is removed (findIndex and splice)
RECURSIVE DropFirst(_, _)
DropFirst(elems, id) ==
    IF elems = <<>> THEN <<>>
    ELSE IF Head(elems).id = id THEN Tail(elems)
    ELSE <<Head(elems)>> \o DropFirst(Tail(elems), id)

Filter_FirstOnly(saved, id) ==
    IF saved.kind # "array" \/ \E i \in 1..Len(saved.elems) : saved.elems[i].kind = "null"
    THEN [threw |-> TRUE, elems |-> <<>>]
    ELSE [threw |-> FALSE, elems |-> DropFirst(saved.elems, id)]

\* mutant: the predicate is p.id === id
Filter_Inverted(saved, id) ==
    IF saved.kind # "array" \/ \E i \in 1..Len(saved.elems) : saved.elems[i].kind = "null"
    THEN [threw |-> TRUE, elems |-> <<>>]
    ELSE [threw |-> FALSE, elems |-> SelectSeq(saved.elems, LAMBDA e : e.id = id)]

Filter(saved, id) ==
    IF saved.kind # "array" \/ \E i \in 1..Len(saved.elems) : saved.elems[i].kind = "null"
    THEN [threw |-> TRUE, elems |-> <<>>]
    ELSE [threw |-> FALSE, elems |-> FilterElems(saved.elems, id)]

\* mutant: [...saved, idea]
Prepend_AtEnd(idea, elems) == Append(elems, idea)

\* mutant: [idea], the items read are dropped
Prepend_DropsRest(idea, elems) == <<idea>>

(* [idea, ...saved] (storage.ts:20) *)
Prepend(idea, elems) == <<idea>> \o elems

----------------------------------------------------------------------------
(* saveProject (storage.ts:15-27): [storage, threw, b, writes] *)

\* mutant: the catch block returns true
SaveCaught_ReturnsTrue(st, w) == [storage |-> st, threw |-> FALSE, b |-> TRUE, writes |-> w]

\* value of the catch block, lines 23-26
SaveCaught(st, w) == [storage |-> st, threw |-> FALSE, b |-> FALSE, writes |-> w]

\* mutant: the check of line 18 is missing
SaveProject_NoDupCheck(st, med, idea) ==
    LET saved == GetSavedProjects(st, med).v IN
    IF saved.kind # "array" THEN SaveCaught(st, 0)
    ELSE LET w == SetItem(st, med, Stringify(Prepend(idea, saved.elems))) IN
         IF w.threw THEN SaveCaught(w.storage, 1)
         ELSE [storage |-> w.storage, threw |-> FALSE, b |-> TRUE, writes |-> 1]

\* lines 18-22 and the catch block, given what line 17 read
SaveProjectFrom(saved, st, med, idea) ==
    LET dup == Some(saved, idea.id)
    IN  IF dup.threw THEN SaveCaught(st, 0)
        ELSE IF dup.b THEN [storage |-> st, threw |-> FALSE, b |-> FALSE, writes |-> 0]
        ELSE LET w == SetItem(st, med, Stringify(Prepend(idea, saved.elems))) IN
             IF w.threw THEN SaveCaught(w.storage, 1)
             ELSE [storage |-> w.storage, threw |-> FALSE, b |-> TRUE, writes |-> 1]

SaveProject(st, med, idea) == SaveProjectFrom(GetSavedProjects(st, med).v, st, med, idea)

(* removeProject (storage.ts:29-37): [storage, threw, writes] *)

\* lines 32-33 and the catch block, given what line 31 read
RemoveProjectFrom(saved, st, med, id) ==
    LET updated == Filter(saved, id)
    IN  IF updated.threw THEN [storage |-> st, threw |-> FALSE, writes |-> 0]
        ELSE LET w == SetItem(st, med, Stringify(updated.elems)) IN
             [storage |-> w.storage, threw |-> FALSE, writes |-> 1]

RemoveProject(st, med, id) == RemoveProjectFrom(GetSavedProjects(st, med).v, st, med, id)

(* isProjectSaved (storage.ts:39-42): no try block *)

IsProjectSaved(st, med, id) == Some(GetSavedProjects(st, med).v, id)

----------------------------------------------------------------------------
(* The state machine: one action per store operation, run to completion    *)
(* (the store is synchronous), plus the environment of the storage key.    *)

NoCall == [op |-> "none", id |-> 0, title |-> ""]
NoRet == [threw |-> FALSE, kind |-> "none", b |-> FALSE, v |-> JNull]
RetBool(threw, b) == [threw |-> threw, kind |-> "bool", b |-> b, v |-> JNull]
RetVoid(threw) == [threw |-> threw, kind |-> "void", b |-> FALSE, v |-> JNull]
RetJson(threw, v) == [threw |-> threw, kind |-> "json", b |-> FALSE, v |-> v]

\* the idea a call record names
Idea(c) == ProjectIdea(c.id, c.title)

(* Two tabs of the same origin: each runs the store's operations on its   *)
(* own thread, so another tab can write between line 17 (31) and line 21   *)
(* (33) of an operation.                                                   *)
Tabs == {1, 2}
IdleTab == [pc |-> "idle", op |-> "none", id |-> 0, title |-> "", saved |-> JNull]
NoHist == [acked |-> {}, removed |-> {}, stale |-> FALSE, ops |-> 0]

(* App (App.tsx:12-41) once mounted: the useState initial values, and     *)
(* savedIdeas as the effect of lines 39-41 has loaded it                   *)
AppMounted(st, med) ==
    [ topic |-> "Healthcare Diagnosis",
      view |-> "search",
      loading |-> FALSE,
      ideas |-> <<>>,
      selectedIdea |-> NullElem,
      savedIdeas |-> GetSavedProjects(st, med).v,
      pending |-> FALSE,       \* generateProjectIdeas has not settled
      alert |-> FALSE,         \* the alert of line 64 was shown for the last request
      event |-> "mount" ]

(* The capability functions of services/gemini.ts (the second half of     *)
(* types.ts) and one call of each: the requests it has sent to the         *)
(* provider, in order, each with the response it got                       *)
Capabilities ==
    {"generateArchitecturePlan", "generateStarterCode", "findResources", "generateProjectImage"}

\* null, where a text can stand
Null == "<null>"

\* ResourceData (types.ts:30-34); papersContent is "" wherever one is built
ResourceData(text, links) == [datasetsContent |-> text, groundingLinks |-> links]

\* the resources state before any ResourceData is set: null
NullResources == ResourceData(Null, <<>>)

NoOutcome == [kind |-> "none", v |-> "", links |-> <<>>]

IdleCall == [pc |-> "idle", reqs |-> <<>>, out |-> NoOutcome]

(* ArchitectureView (ArchitectureView.tsx:72-91): the useState initial     *)
(* values; phase tells whether the component is on screen                  *)
ArchInitial ==
    [ phase |-> "initial",      \* "initial", "mounted" or "unmounted"
      idea |-> 0,               \* the idea prop: the ideas opened are numbered, 0 is none
      fetchedFor |-> 0,         \* the idea whose fetch set plan and resources
      imageFor |-> 0,           \* the idea whose image request set imageUrl
      superseded |-> {},        \* what was in flight when the cleanup ran
      fetch |-> "none",         \* fetchData: "none", "pending" or "settled"
      plan |-> Null,
      resources |-> NullResources,
      imageUrl |-> Null,
      generatedCode |-> Null,
      loading |-> TRUE,
      imageLoading |-> FALSE,
      codeLoading |-> FALSE,
      chatSession |-> FALSE,
      messages |-> <<>>,
      chatLoading |-> FALSE,
      lastSend |-> "none",      \* how the latest sendMessage ended, "pending" until then
      sends |-> 0 ]

\* no instance of ArchitectureView has left the screen yet
NoInstance == [arch |-> ArchInitial, calls |-> [fn \in Capabilities |-> IdleCall]]

(* ChatWidget (part_001:14-36) once mounted by App with no ideas: the      *)
(* useState initial values, then the effect's session and greeting         *)
Greeting(n) ==
    [role |-> "model",
     text |-> IF n > 0 THEN "I see you've found ideas" ELSE "Hi! I can help you",
     count |-> n]

WidgetMounted ==
    [ ideas |-> 0,              \* the ideas prop: how many ideas it holds
      messages |-> <<Greeting(0)>>,
      loading |-> FALSE,
      chatSession |-> 1,        \* the sessions created so far are numbered
      lastSend |-> "none",      \* how the latest sendMessage ended, "pending" until then
      sends |-> 0 ]

Init ==
    /\ storage = Absent
    /\ medium = "ok"
    /\ call = NoCall
    /\ ret = NoRet
    /\ pre = Absent
    /\ writes = 0
    /\ tabs = [t \in Tabs |-> IdleTab]
    /\ hist = NoHist
    /\ app = AppMounted(storage, medium)
    /\ arch = ArchInitial
    /\ calls = [fn \in Capabilities |-> IdleCall]
    /\ widget = WidgetMounted
    /\ abs = <<>>
    /\ prev = NoInstance

\* one call of each operation of the store, on the store's variables
GetSavedProjectsStep ==
    LET r == GetSavedProjects(storage, medium) IN
    /\ call' = [op |-> "getSavedProjects", id |-> 0, title |-> ""]
    /\ ret' = RetJson(r.threw, r.v)
    /\ pre' = storage
    /\ writes' = 0
    /\ UNCHANGED <<storage, medium>>

DoGetSavedProjects ==
    /\ GetSavedProjectsStep
    /\ UNCHANGED nonStoreVars

SaveProjectStep(idea) ==
    LET r == SaveProject(storage, medium, idea) IN
    /\ call' = [op |-> "saveProject", id |-> idea.id, title |-> idea.title]
    /\ ret' = RetBool(r.threw, r.b)
    /\ pre' = storage
    /\ writes' = r.writes
    /\ storage' = r.storage
    /\ UNCHANGED medium

DoSaveProject(idea) ==
    /\ SaveProjectStep(idea)
    /\ UNCHANGED nonStoreVars

RemoveProjectStep(id) ==
    LET r == RemoveProject(storage, medium, id) IN
    /\ call' = [op |-> "removeProject", id |-> id, title |-> ""]
    /\ ret' = RetVoid(r.threw)
    /\ pre' = storage
    /\ writes' = r.writes
    /\ storage' = r.storage
    /\ UNCHANGED medium

DoRemoveProject(id) ==
    /\ RemoveProjectStep(id)
    /\ UNCHANGED nonStoreVars

DoIsProjectSaved(id) ==
    LET r == IsProjectSaved(storage, medium, id) IN
    /\ call' = [op |-> "isProjectSaved", id |-> id, title |-> ""]
    /\ ret' = RetBool(r.threw, r.b)
    /\ pre' = storage
    /\ writes' = 0
    /\ UNCHANGED <<storage, medium>>
    /\ UNCHANGED nonStoreVars

\* the medium becomes full (quota), denied (storage disabled) or usable again
SetMedium(m) ==
    /\ m # medium
    /\ medium' = m
    /\ call' = NoCall
    /\ ret' = NoRet
    /\ pre' = storage
    /\ writes' = 0
    /\ UNCHANGED storage
    /\ UNCHANGED nonStoreVars

\* values another script of the same origin can leave under the key
ForeignTexts ==
    { <<>>,
      <<TWord>>,
      <<LB>>,
      <<LB, TObj(ProjectIdea(1, "X")), Comma, RB>>,
      <<TNull>>,
      <<TNum>>,
      <<TObj(ProjectIdea(1, "X"))>>,
      Stringify(<<NullElem>>),
      Stringify(<<ProjectIdea(1, "X"), NullElem>>),
      Stringify(<<ProjectIdea(1, "X"), ProjectIdea(2, "X"), ProjectIdea(1, "Y")>>) }

ForeignWrite(text) ==
    /\ storage # Stored(text)
    /\ storage' = Stored(text)
    /\ call' = NoCall
    /\ ret' = NoRet
    /\ pre' = storage'
    /\ writes' = 0
    /\ UNCHANGED medium
    /\ UNCHANGED nonStoreVars

ForeignRemove ==
    /\ storage # Absent
    /\ storage' = Absent
    /\ call' = NoCall
    /\ ret' = NoRet
    /\ pre' = Absent
    /\ writes' = 0
    /\ UNCHANGED medium
    /\ UNCHANGED nonStoreVars

StoreOps ==
    \/ DoGetSavedProjects
    \/ \E idea \in Ideas : DoSaveProject(idea)
    \/ \E id \in Ids : DoRemoveProject(id)
    \/ \E id \in Ids : DoIsProjectSaved(id)

Environment ==
    \/ \E m \in Media : SetMedium(m)
    \/ \E text \in ForeignTexts : ForeignWrite(text)
    \/ ForeignRemove

Next == StoreOps \/ Environment

Spec == Init /\ [][Next]_vars

(* The store alone: the key is written by the store's own operations only *)

NextStore == StoreOps \/ \E m \in Media : SetMedium(m)

SpecStore == Init /\ [][NextStore]_vars

(* One execution context on a usable medium, from an empty store: the     *)
(* store's calls, and beside each the same call on an abstract sequence     *)
(* (add: prepend unless the id is there; remove: drop the id).              *)
AbsAdd(seq, idea) ==
    IF \E i \in 1..Len(seq) : seq[i].id = idea.id THEN seq ELSE <<idea>> \o seq

AbsRemove(seq, id) == SelectSeq(seq, LAMBDA e : e.id # id)

otherVars == <<tabs, hist, app, arch, calls, widget, prev>>

SeqGetSavedProjects ==
    /\ GetSavedProjectsStep
    /\ UNCHANGED abs
    /\ UNCHANGED otherVars

SeqSaveProject(idea) ==
    /\ SaveProjectStep(idea)
    /\ abs' = AbsAdd(abs, idea)
    /\ UNCHANGED otherVars

SeqRemoveProject(id) ==
    /\ RemoveProjectStep(id)
    /\ abs' = AbsRemove(abs, id)
    /\ UNCHANGED otherVars

NextSeq ==
    \/ SeqGetSavedProjects
    \/ \E idea \in Ideas : SeqSaveProject(idea)
    \/ \E id \in Ids : SeqRemoveProject(id)

SpecSeq == Init /\ [][NextSeq]_vars

----------------------------------------------------------------------------
(* Two tabs: an operation is two steps, the read of line 17 (31) and the   *)
(* rest; the tabs' steps interleave freely.                                *)

MaxTabOps == 3

TabIdeas == {ProjectIdea(i, "X") : i \in Ids}

\* saveProject, line 17
TabSaveProjectRead(t, idea) ==
    /\ tabs[t].pc = "idle"
    /\ hist.ops < MaxTabOps
    /\ tabs' = [tabs EXCEPT ![t] = [pc |-> "read", op |-> "saveProject", id |-> idea.id,
                                    title |-> idea.title,
                                    saved |-> GetSavedProjects(storage, medium).v]]
    /\ hist' = [hist EXCEPT !.ops = @ + 1]
    /\ UNCHANGED storeVars
    /\ UNCHANGED <<appVars, archVars, widgetVars, seqVars>>

\* saveProject, lines 18-26
TabSaveProjectWrite(t) ==
    LET r == SaveProjectFrom(tabs[t].saved, storage, medium, Idea(tabs[t])) IN
    /\ tabs[t].pc = "read"
    /\ tabs[t].op = "saveProject"
    /\ storage' = r.storage
    /\ tabs' = [tabs EXCEPT ![t] = IdleTab]
    /\ hist' = [hist EXCEPT
            !.acked = IF r.b THEN @ \cup {tabs[t].id} ELSE @,
            !.stale = @ \/ (r.writes = 1 /\ tabs[t].saved # GetSavedProjects(storage, medium).v)]
    /\ UNCHANGED <<medium, call, ret, pre, writes>>
    /\ UNCHANGED <<appVars, archVars, widgetVars, seqVars>>

\* removeProject, line 31
TabRemoveProjectRead(t, id) ==
    /\ tabs[t].pc = "idle"
    /\ hist.ops < MaxTabOps
    /\ tabs' = [tabs EXCEPT ![t] = [pc |-> "read", op |-> "removeProject", id |-> id,
                                    title |-> "",
                                    saved |-> GetSavedProjects(storage, medium).v]]
    /\ hist' = [hist EXCEPT !.ops = @ + 1, !.removed = @ \cup {id}]
    /\ UNCHANGED storeVars
    /\ UNCHANGED <<appVars, archVars, widgetVars, seqVars>>

\* removeProject, lines 32-36
TabRemoveProjectWrite(t) ==
    LET r == RemoveProjectFrom(tabs[t].saved, storage, medium, tabs[t].id) IN
    /\ tabs[t].pc = "read"
    /\ tabs[t].op = "removeProject"
    /\ storage' = r.storage
    /\ tabs' = [tabs EXCEPT ![t] = IdleTab]
    /\ hist' = [hist EXCEPT
            !.stale = @ \/ (r.writes = 1 /\ tabs[t].saved # GetSavedProjects(storage, medium).v)]
    /\ UNCHANGED <<medium, call, ret, pre, writes>>
    /\ UNCHANGED <<appVars, archVars, widgetVars, seqVars>>

NextTabs ==
    \/ \E t \in Tabs, idea \in TabIdeas : TabSaveProjectRead(t, idea)
    \/ \E t \in Tabs : TabSaveProjectWrite(t)
    \/ \E t \in Tabs, id \in Ids : TabRemoveProjectRead(t, id)
    \/ \E t \in Tabs : TabRemoveProjectWrite(t)

SpecTabs == Init /\ [][NextTabs]_vars

----------------------------------------------------------------------------
(* App (App.tsx): the search form, the two views and the selection.        *)
(* An event handler runs to its first await in one step; the settling of   *)
(* generateProjectIdeas is a later step, and the user acts in between.     *)

MaxBatch == 2

Topics == {"", " ", "Healthcare Diagnosis"}

\* topic.trim() (App.tsx:52)
Trim(t) == IF t = " " THEN "" ELSE t

\* what generateProjectIdeas resolves with (types.ts:90-91): every raw item
\* of the response gets the id that generateId() draws for it
GeneratedIdeas(ids) == [i \in 1..Len(ids) |-> ProjectIdea(ids[i], "X")]

\* the draws of generateId (types.ts:46), one per raw item
IdDraws == UNION {[1..n -> Ids] : n \in 0..MaxBatch}

\* the form of lines 176-224 is on screen and its submit button is enabled
CanSubmit ==
    /\ app.selectedIdea = NullElem
    /\ app.view = "search"
    /\ ~app.loading
    /\ app.topic # ""

\* mutant: line 55 is missing
HandleGenerateStart_KeepsIdeas(a) ==
    [a EXCEPT !.loading = TRUE, !.selectedIdea = NullElem,
              !.view = "search", !.pending = TRUE, !.alert = FALSE,
              !.event = "handleGenerate"]

\* handleGenerate up to the await (App.tsx:54-60)
HandleGenerateStart(a) ==
    [a EXCEPT !.loading = TRUE, !.ideas = <<>>, !.selectedIdea = NullElem,
              !.view = "search", !.pending = TRUE, !.alert = FALSE,
              !.event = "handleGenerate"]

\* lines 61 and 66
HandleGenerateResolved(a, generatedIdeas) ==
    [a EXCEPT !.ideas = generatedIdeas, !.loading = FALSE, !.pending = FALSE,
              !.event = "generated"]

\* lines 62-66
HandleGenerateRejected(a) ==
    [a EXCEPT !.alert = TRUE, !.loading = FALSE, !.pending = FALSE,
              !.event = "generateFailed"]

SetTopic(t) ==
    /\ app.selectedIdea = NullElem /\ app.view = "search"
    /\ t # app.topic
    /\ app' = [app EXCEPT !.topic = t, !.event = "setTopic"]
    /\ UNCHANGED <<storeVars, seqVars, tabVars, archVars, widgetVars>>

\* the early return of line 52
HandleGenerateBlank ==
    /\ CanSubmit
    /\ Trim(app.topic) = ""
    /\ app' = [app EXCEPT !.event = "handleGenerateBlank"]
    /\ UNCHANGED <<storeVars, seqVars, tabVars, archVars, widgetVars>>

HandleGenerate ==
    /\ CanSubmit
    /\ Trim(app.topic) # ""
    /\ app' = HandleGenerateStart(app)
    /\ UNCHANGED <<storeVars, seqVars, tabVars, archVars, widgetVars>>

GenerateResolve(ids) ==
    /\ app.pending
    /\ app' = HandleGenerateResolved(app, GeneratedIdeas(ids))
    /\ UNCHANGED <<storeVars, seqVars, tabVars, archVars, widgetVars>>

\* the request, JSON.parse or rawData.map threw (types.ts:92-95)
GenerateReject ==
    /\ app.pending
    /\ app' = HandleGenerateRejected(app)
    /\ UNCHANGED <<storeVars, seqVars, tabVars, archVars, widgetVars>>

\* the navigation buttons (lines 139-167) and the effect of lines 39-41
SetView(v) ==
    /\ app.selectedIdea = NullElem
    /\ v # app.view
    /\ app' = [app EXCEPT !.view = v,
                          !.savedIdeas = GetSavedProjects(storage, medium).v,
                          !.event = "setView"]
    /\ UNCHANGED <<storeVars, seqVars, tabVars, archVars, widgetVars>>

\* the cards on screen: lines 228-245 (search) and 263-274 (saved)
CardsShown ==
    IF app.view = "search" THEN app.ideas
    ELSE IF app.savedIdeas.kind = "array" THEN app.savedIdeas.elems
    ELSE <<>>

\* onSelect={setSelectedIdea}
SelectIdea(i) ==
    /\ app.selectedIdea = NullElem
    /\ i \in 1..Len(CardsShown)
    /\ app' = [app EXCEPT !.selectedIdea = CardsShown[i], !.event = "select"]
    /\ UNCHANGED <<storeVars, seqVars, tabVars, archVars, widgetVars>>

\* onBack (line 290)
Back ==
    /\ app.selectedIdea # NullElem
    /\ app' = [app EXCEPT !.selectedIdea = NullElem, !.event = "back"]
    /\ UNCHANGED <<storeVars, seqVars, tabVars, archVars, widgetVars>>

\* the page is opened on a store that is empty or holds a project saved in
\* an earlier visit
InitApp ==
    /\ storage \in {Absent, Stored(Stringify(<<ProjectIdea(1, "X")>>))}
    /\ medium = "ok"
    /\ call = NoCall
    /\ ret = NoRet
    /\ pre = storage
    /\ writes = 0
    /\ tabs = [t \in Tabs |-> IdleTab]
    /\ hist = NoHist
    /\ app = AppMounted(storage, medium)
    /\ arch = ArchInitial
    /\ calls = [fn \in Capabilities |-> IdleCall]
    /\ widget = WidgetMounted
    /\ abs = <<>>
    /\ prev = NoInstance

NextApp ==
    \/ \E t \in Topics : SetTopic(t)
    \/ HandleGenerateBlank
    \/ HandleGenerate
    \/ \E ids \in IdDraws : GenerateResolve(ids)
    \/ GenerateReject
    \/ \E v \in {"search", "saved"} : SetView(v)
    \/ \E i \in 1..(MaxBatch + 1) : SelectIdea(i)
    \/ Back

SpecApp == InitApp /\ [][NextApp]_vars

(***************************************************************************)
(* The bookmark handlers of App (App.tsx:70-83).  Both are synchronous:    *)
(* the store calls and setSavedIdeas happen in one step.  An exception of  *)
(* isProjectSaved leaves toggleSave at line 71, before any state is set.   *)
(***************************************************************************)
ToggleSave_AlwaysSaves(st, med, idea) ==
    LET r == SaveProject(st, med, idea)
    IN  [storage |-> r.storage, threw |-> FALSE, writes |-> r.writes]

\* lines 71-76 on the store: [storage, threw, writes]
ToggleSaveStore(st, med, idea) ==
    LET isAlreadySaved == IsProjectSaved(st, med, idea.id)
    IN  IF isAlreadySaved.threw THEN [storage |-> st, threw |-> TRUE, writes |-> 0]
        ELSE IF isAlreadySaved.b
        THEN LET r == RemoveProject(st, med, idea.id)
             IN  [storage |-> r.storage, threw |-> FALSE, writes |-> r.writes]
        ELSE LET r == SaveProject(st, med, idea)
             IN  [storage |-> r.storage, threw |-> FALSE, writes |-> r.writes]

\* setSavedIdeas(getSavedProjects()) (lines 77 and 82)
Refresh(a, st, med, event) ==
    [a EXCEPT !.savedIdeas = GetSavedProjects(st, med).v, !.event = event]

\* the bookmark button of the i-th result card (line 241)
ToggleSave(i) ==
    /\ app.selectedIdea = NullElem /\ app.view = "search"
    /\ i \in 1..Len(app.ideas)
    /\ LET idea == app.ideas[i]
           r == ToggleSaveStore(storage, medium, idea)
       IN  /\ storage' = r.storage
           /\ call' = [op |-> "toggleSave", id |-> idea.id, title |-> idea.title]
           /\ ret' = RetVoid(r.threw)
           /\ pre' = storage
           /\ writes' = r.writes
           /\ app' = IF r.threw THEN [app EXCEPT !.event = "toggleSave"]
                      ELSE Refresh(app, r.storage, medium, "toggleSave")
    /\ UNCHANGED medium
    /\ UNCHANGED <<seqVars, tabVars, archVars, widgetVars>>

\* the remove button of the i-th saved card (line 271)
HandleRemove(i) ==
    /\ app.selectedIdea = NullElem /\ app.view = "saved"
    /\ i \in 1..Len(CardsShown)
    /\ CardsShown[i].kind = "object"
    /\ LET idea == CardsShown[i]
           r == RemoveProject(storage, medium, idea.id)
       IN  /\ storage' = r.storage
           /\ call' = [op |-> "handleRemove", id |-> idea.id, title |-> idea.title]
           /\ ret' = RetVoid(r.threw)
           /\ pre' = storage
           /\ writes' = r.writes
           /\ app' = Refresh(app, r.storage, medium, "handleRemove")
    /\ UNCHANGED medium
    /\ UNCHANGED <<seqVars, tabVars, archVars, widgetVars>>

(* the results and the saved list of one session whose searches succeed,   *)
(* the key written by App alone                                            *)
NextSaved ==
    \/ HandleGenerate
    \/ \E ids \in IdDraws : GenerateResolve(ids)
    \/ \E v \in {"search", "saved"} : SetView(v)
    \/ \E i \in 1..MaxBatch : ToggleSave(i)
    \/ \E i \in 1..MaxIds : HandleRemove(i)

SpecSaved == InitApp /\ [][NextSaved]_vars

\* the same session while other scripts of the origin write the key
NextSavedForeign ==
    \/ NextSaved
    \/ \E text \in ForeignTexts : ForeignWrite(text)

SpecSavedForeign == InitApp /\ [][NextSavedForeign]_vars

(***************************************************************************)
(* The capability functions (services/gemini.ts, types.ts:98-317).  Each   *)
(* is given the number of the attempt that has just settled (1 the         *)
(* primary request, 2 the fallback request) and the provider's response,   *)
(* and tells what the function does next: send the fallback request,       *)
(* return a value, or throw.                                               *)
(***************************************************************************)
Responses == {"content", "empty", "fail"}

TryFallback == [kind |-> "fallback", v |-> "", links |-> <<>>]
Return(v) == [kind |-> "value", v |-> v, links |-> <<>>]
ReturnData(d) == [kind |-> "value", v |-> d.datasetsContent, links |-> d.groundingLinks]
Throw(msg) == [kind |-> "throw", v |-> msg, links |-> <<>>]

\* response.text || dflt
TextOr(resp, text, dflt) == IF resp = "content" THEN text ELSE dflt

GenerateArchitecturePlan(attempt, resp) ==
    IF resp # "fail" THEN Return(TextOr(resp, "plan", "No plan generated."))
    ELSE IF attempt = 1 THEN TryFallback
    ELSE Throw("Failed to generate architecture plan.")

GenerateStarterCode_FallbackOnEmpty(attempt, resp) ==
    IF resp = "content" THEN Return("code")
    ELSE IF attempt = 1 THEN TryFallback
    ELSE IF resp = "empty" THEN Return("Failed to generate code.")
    ELSE Throw("Failed to generate starter code.")

GenerateStarterCode(attempt, resp) ==
    IF resp # "fail" THEN Return(TextOr(resp, "code", "Failed to generate code."))
    ELSE IF attempt = 1 THEN TryFallback
    ELSE Throw("Failed to generate starter code.")

FindResources_ThrowsOnTotalFailure(attempt, resp) ==
    IF resp # "fail"
    THEN ReturnData(ResourceData(TextOr(resp, "resources", ""), <<>>))
    ELSE IF attempt = 1 THEN TryFallback
    ELSE Throw("Could not retrieve resources.")

(* the grounded request's answer carries one grounding chunk with a uri    *)
(* when it has content; the fallback's links are always []                 *)
FindResources(attempt, resp) ==
    IF resp # "fail" /\ attempt = 1
    THEN ReturnData(ResourceData(TextOr(resp, "resources", ""),
                                 IF resp = "content" THEN <<"uri">> ELSE <<>>))
    ELSE IF resp # "fail"
    THEN ReturnData(ResourceData(TextOr(resp, "resources", "No resources found."), <<>>))
    ELSE IF attempt = 1 THEN TryFallback
    ELSE ReturnData(ResourceData("Could not retrieve resources.", <<>>))

\* "content": a part with inlineData; "empty": no such part
GenerateProjectImage(attempt, resp) ==
    IF resp # "fail" THEN Return(TextOr(resp, "data:image", Null))
    ELSE IF attempt = 1 THEN TryFallback
    ELSE Return(Null)

Capability(fn, attempt, resp) ==
    CASE fn = "generateArchitecturePlan" -> GenerateArchitecturePlan(attempt, resp)
      [] fn = "generateStarterCode" -> GenerateStarterCode(attempt, resp)
      [] fn = "findResources" -> FindResources(attempt, resp)
      [] fn = "generateProjectImage" -> GenerateProjectImage(attempt, resp)

\* the model named in each generateContent request
PrimaryModel(fn) ==
    CASE fn \in {"generateArchitecturePlan", "generateStarterCode"} -> "gemini-3-pro-preview"
      [] fn = "findResources" -> "gemini-2.5-flash+googleSearch"
      [] fn = "generateProjectImage" -> "gemini-3-pro-image-preview"

FallbackModel(fn) ==
    CASE fn \in {"generateArchitecturePlan", "generateStarterCode", "findResources"} -> "gemini-2.5-flash"
      [] fn = "generateProjectImage" -> "gemini-2.5-flash-image"

\* every prompt names the idea's title
Request(model, idea) == [model |-> model, idea |-> idea, resp |-> "pending"]

\* a call begins: the function sends its primary request and awaits it
StartCall(fn, idea) ==
    [pc |-> "primary", reqs |-> <<Request(PrimaryModel(fn), idea)>>, out |-> NoOutcome]

\* the awaited request of call c settles with resp
SettleCall(fn, c, resp) ==
    LET n == Len(c.reqs)
        log == [c.reqs EXCEPT ![n].resp = resp]
        r == Capability(fn, n, resp)
    IN  IF r.kind = "fallback"
        THEN [pc |-> "fallback",
              reqs |-> Append(log, Request(FallbackModel(fn), c.reqs[1].idea)),
              out |-> NoOutcome]
        ELSE [pc |-> "done", reqs |-> log, out |-> r]

Awaiting(c) == c.pc \in {"primary", "fallback"}

(***************************************************************************)
(* ArchitectureView (components/ArchitectureView.tsx).  A handler runs to  *)
(* its first await in one step; the continuation after the await runs in   *)
(* the step in which the awaited call settles.  State setters called       *)
(* after the component has left the screen change nothing.                 *)
(***************************************************************************)
MaxSends == 2

UserMessage == [role |-> "user", text |-> "question", count |-> 0]
ModelMessage(text) == [role |-> "model", text |-> text, count |-> 0]

OnScreen(a) == a.phase = "mounted"

FetchDataContinue_KeepsPartialResult(a, cs) ==
    LET p == cs["generateArchitecturePlan"]
        r == cs["findResources"]
    IN  IF a.fetch # "pending" \/ p.pc # "done" \/ r.pc # "done" THEN [arch |-> a, calls |-> cs]
        ELSE [arch |-> [a EXCEPT !.fetch = "settled",
                                 !.plan = IF p.out.kind = "value" THEN p.out.v ELSE @,
                                 !.resources = ResourceData(r.out.v, r.out.links),
                                 !.loading = FALSE],
              calls |-> cs]

FetchDataContinue_NoMountedCheck(a, cs) ==
    LET p == cs["generateArchitecturePlan"]
        r == cs["findResources"]
    IN  IF a.fetch # "pending" THEN [arch |-> a, calls |-> cs]
        ELSE IF p.out.kind = "throw" \/ r.out.kind = "throw"
        THEN [arch |-> [a EXCEPT !.fetch = "settled", !.loading = FALSE], calls |-> cs]
        ELSE IF p.out.kind = "value" /\ r.out.kind = "value"
        THEN [arch |-> [a EXCEPT !.fetch = "settled",
                                 !.plan = p.out.v,
                                 !.resources = ResourceData(r.out.v, r.out.links),
                                 !.fetchedFor = p.reqs[1].idea,
                                 !.chatSession = TRUE,
                                 !.imageLoading = TRUE,
                                 !.loading = FALSE],
              calls |-> [cs EXCEPT !["generateProjectImage"] =
                                       StartCall("generateProjectImage", a.idea)]]
        ELSE [arch |-> a, calls |-> cs]

(* fetchData after `await Promise.all([...])` (lines 100-117): the await   *)
(* throws as soon as one of the two calls throws, and yields once both     *)
(* have returned.  The effect's `mounted` is true until the cleanup runs,  *)
(* that is while the component is on screen.  generateImage (line 111)     *)
(* runs to its await: setImageLoading(true) and the primary image request. *)
FetchDataContinue(a, cs) ==
    LET p == cs["generateArchitecturePlan"]
        r == cs["findResources"]
    IN  IF a.fetch # "pending" THEN [arch |-> a, calls |-> cs]
        ELSE IF p.out.kind = "throw" \/ r.out.kind = "throw"
        THEN [arch |-> [a EXCEPT !.fetch = "settled",
                                 !.loading = IF OnScreen(a) THEN FALSE ELSE @],
              calls |-> cs]
        ELSE IF p.out.kind = "value" /\ r.out.kind = "value"
        THEN IF OnScreen(a)
             THEN [arch |-> [a EXCEPT !.fetch = "settled",
                                      !.plan = p.out.v,
                                      !.resources = ResourceData(r.out.v, r.out.links),
                                      !.fetchedFor = p.reqs[1].idea,
                                      !.chatSession = TRUE,
                                      !.imageLoading = TRUE,
                                      !.loading = FALSE],
                   calls |-> [cs EXCEPT !["generateProjectImage"] =
                                            StartCall("generateProjectImage", a.idea)]]
             ELSE [arch |-> [a EXCEPT !.fetch = "settled"], calls |-> cs]
        ELSE [arch |-> a, calls |-> cs]

\* the idea is selected: the component mounts and its effect calls fetchData
Mounted(i) ==
    [ArchInitial EXCEPT !.phase = "mounted", !.idea = i, !.fetch = "pending", !.loading = TRUE]

FetchDataStart(cs, i) ==
    [cs EXCEPT !["generateArchitecturePlan"] = StartCall("generateArchitecturePlan", i),
               !["findResources"] = StartCall("findResources", i)]

Mount ==
    /\ arch.phase = "initial"
    /\ arch' = Mounted(1)
    /\ calls' = FetchDataStart(calls, 1)
    /\ UNCHANGED <<storeVars, seqVars, tabVars, appVars, widgetVars, prev>>

\* onBack: the component leaves the screen and the effect's cleanup runs
Unmount ==
    /\ OnScreen(arch)
    /\ arch' = [arch EXCEPT !.phase = "unmounted",
                            !.superseded =
                                {x \in {"fetch"} : arch.fetch = "pending"} \cup
                                {x \in {"image"} : Awaiting(calls["generateProjectImage"])}]
    /\ UNCHANGED calls
    /\ UNCHANGED <<storeVars, seqVars, tabVars, appVars, widgetVars, prev>>

\* a request of generateArchitecturePlan or of findResources settles
FetchSettle(fn, resp) ==
    /\ fn \in {"generateArchitecturePlan", "findResources"}
    /\ Awaiting(calls[fn])
    /\ LET next == FetchDataContinue(arch, [calls EXCEPT ![fn] = SettleCall(fn, calls[fn], resp)])
       IN  /\ arch' = next.arch
           /\ calls' = next.calls
    /\ UNCHANGED <<storeVars, seqVars, tabVars, appVars, widgetVars, prev>>

GenerateImageContinue_AfterUnmountToo(a, c) ==
    IF c.pc # "done" THEN a
    ELSE [a EXCEPT !.imageUrl = c.out.v, !.imageFor = c.reqs[1].idea, !.imageLoading = FALSE]

\* generateImage after its await (lines 130-135)
GenerateImageContinue(a, c) ==
    IF c.pc # "done" \/ ~OnScreen(a) THEN a
    ELSE [a EXCEPT !.imageUrl = c.out.v, !.imageFor = c.reqs[1].idea, !.imageLoading = FALSE]

ImageSettle(resp) ==
    /\ Awaiting(calls["generateProjectImage"])
    /\ LET c == SettleCall("generateProjectImage", calls["generateProjectImage"], resp)
       IN  /\ calls' = [calls EXCEPT !["generateProjectImage"] = c]
           /\ arch' = GenerateImageContinue(arch, c)
    /\ UNCHANGED <<storeVars, seqVars, tabVars, appVars, widgetVars, prev>>

\* the Generate Starter Code button (lines 290-298) and the handler to its await
HandleGenerateCode ==
    /\ OnScreen(arch)
    /\ arch.generatedCode = Null /\ ~arch.codeLoading
    /\ arch' = [arch EXCEPT !.codeLoading = TRUE]
    /\ calls' = [calls EXCEPT !["generateStarterCode"] = StartCall("generateStarterCode", arch.idea)]
    /\ UNCHANGED <<storeVars, seqVars, tabVars, appVars, widgetVars, prev>>

HandleGenerateCodeContinue_NoFinally(a, c) ==
    IF c.pc # "done" \/ ~OnScreen(a) THEN a
    ELSE IF c.out.kind = "value"
    THEN [a EXCEPT !.generatedCode = c.out.v, !.codeLoading = FALSE]
    ELSE a

\* handleGenerateCode after its await (lines 142-148)
HandleGenerateCodeContinue(a, c) ==
    IF c.pc # "done" \/ ~OnScreen(a) THEN a
    ELSE IF c.out.kind = "value"
    THEN [a EXCEPT !.generatedCode = c.out.v, !.codeLoading = FALSE]
    ELSE [a EXCEPT !.codeLoading = FALSE]

CodeSettle(resp) ==
    /\ Awaiting(calls["generateStarterCode"])
    /\ LET c == SettleCall("generateStarterCode", calls["generateStarterCode"], resp)
       IN  /\ calls' = [calls EXCEPT !["generateStarterCode"] = c]
           /\ arch' = HandleGenerateCodeContinue(arch, c)
    /\ UNCHANGED <<storeVars, seqVars, tabVars, appVars, widgetVars, prev>>

(* handleSendMessage to its await (lines 151-161); the input and the       *)
(* button are disabled while chatLoading (lines 405, 409), and the user    *)
(* has typed a message that is not blank                                   *)
ArchHandleSendMessage ==
    /\ OnScreen(arch)
    /\ arch.chatSession /\ ~arch.chatLoading
    /\ arch.sends < MaxSends
    /\ arch' = [arch EXCEPT !.messages = Append(@, UserMessage),
                            !.chatLoading = TRUE,
                            !.lastSend = "pending",
                            !.sends = @ + 1]
    /\ UNCHANGED calls
    /\ UNCHANGED <<storeVars, seqVars, tabVars, appVars, widgetVars, prev>>

\* handleSendMessage after its await (lines 162-167)
ArchSendContinue(a, resp) ==
    IF ~OnScreen(a) THEN [a EXCEPT !.lastSend = resp]
    ELSE IF resp # "fail"
    THEN [a EXCEPT !.messages = Append(@, ModelMessage(TextOr(resp, "answer", "Sorry, I couldn't answer that."))),
                   !.chatLoading = FALSE,
                   !.lastSend = resp]
    ELSE [a EXCEPT !.chatLoading = FALSE, !.lastSend = resp]

ArchSendSettle(resp) ==
    /\ arch.lastSend = "pending"
    /\ arch' = ArchSendContinue(arch, resp)
    /\ UNCHANGED calls
    /\ UNCHANGED <<storeVars, seqVars, tabVars, appVars, widgetVars, prev>>

NextArch ==
    \/ Mount
    \/ Unmount
    \/ \E fn \in {"generateArchitecturePlan", "findResources"}, resp \in Responses : FetchSettle(fn, resp)
    \/ \E resp \in Responses : ImageSettle(resp)
    \/ HandleGenerateCode
    \/ \E resp \in Responses : CodeSettle(resp)

SpecArch == Init /\ [][NextArch]_vars

\* the project assistant's conversation, in a view whose code tab is left alone
NextArchChat ==
    \/ Mount
    \/ Unmount
    \/ \E fn \in {"generateArchitecturePlan", "findResources"}, resp \in Responses : FetchSettle(fn, resp)
    \/ \E resp \in Responses : ImageSettle(resp)
    \/ ArchHandleSendMessage
    \/ \E resp \in Responses : ArchSendSettle(resp)

SpecArchChat == Init /\ [][NextArchChat]_vars

(***************************************************************************)
(* Back, then another card: App renders a NEW instance of ArchitectureView *)
(* for the next idea (App.tsx:170, 288-291), with fresh state; the         *)
(* instance that left the screen has no state any more, but its calls in   *)
(* flight still settle and their continuations still run, with that        *)
(* instance's `mounted` false and its setters doing nothing.  prev is that *)
(* instance; of its calls only those still needed by a continuation are    *)
(* kept.  One such instance is followed at a time.                         *)
(***************************************************************************)
MaxMounts == 2

\* the calls of an instance whose outcome a continuation of it still awaits
InFlight(a, cs) ==
    [fn \in Capabilities |->
        IF fn \in {"generateArchitecturePlan", "findResources"} /\ a.fetch = "pending" THEN cs[fn]
        ELSE IF Awaiting(cs[fn]) THEN cs[fn]
        ELSE IdleCall]

\* the instance that has left the screen: its state is gone
Discarded(a) ==
    [ArchInitial EXCEPT !.phase = "unmounted", !.idea = a.idea, !.fetch = a.fetch,
                        !.superseded = a.superseded]

Remount ==
    /\ arch.phase = "unmounted"
    /\ arch.idea < MaxMounts
    /\ \A fn \in Capabilities : ~Awaiting(prev.calls[fn])
    /\ prev' = [arch |-> Discarded(arch), calls |-> InFlight(arch, calls)]
    /\ arch' = Mounted(arch.idea + 1)
    /\ calls' = FetchDataStart([fn \in Capabilities |-> IdleCall], arch.idea + 1)
    /\ UNCHANGED <<storeVars, seqVars, tabVars, appVars, widgetVars>>

\* a request of the earlier instance's plan or resources call settles
PrevFetchSettle(fn, resp) ==
    /\ fn \in {"generateArchitecturePlan", "findResources"}
    /\ Awaiting(prev.calls[fn])
    /\ LET next == FetchDataContinue(prev.arch,
                        [prev.calls EXCEPT ![fn] = SettleCall(fn, prev.calls[fn], resp)])
       IN  prev' = [arch |-> next.arch, calls |-> InFlight(next.arch, next.calls)]
    /\ UNCHANGED <<arch, calls>>
    /\ UNCHANGED <<storeVars, seqVars, tabVars, appVars, widgetVars>>

\* a request of the earlier instance's image call settles
PrevImageSettle(resp) ==
    /\ Awaiting(prev.calls["generateProjectImage"])
    /\ LET c == SettleCall("generateProjectImage", prev.calls["generateProjectImage"], resp)
           cs == [prev.calls EXCEPT !["generateProjectImage"] = c]
           a == GenerateImageContinue(prev.arch, c)
       IN  prev' = [arch |-> a, calls |-> InFlight(a, cs)]
    /\ UNCHANGED <<arch, calls>>
    /\ UNCHANGED <<storeVars, seqVars, tabVars, appVars, widgetVars>>

NextRemount ==
    \/ Mount
    \/ Unmount
    \/ Remount
    \/ \E fn \in {"generateArchitecturePlan", "findResources"}, resp \in Responses : FetchSettle(fn, resp)
    \/ \E resp \in Responses : ImageSettle(resp)
    \/ \E fn \in {"generateArchitecturePlan", "findResources"}, resp \in Responses : PrevFetchSettle(fn, resp)
    \/ \E resp \in Responses : PrevImageSettle(resp)

SpecRemount == Init /\ [][NextRemount]_vars

(***************************************************************************)
(* ChatWidget (unnamed/part_001), the dashboard advisor.                   *)
(***************************************************************************)
MaxSessions == 3

(* the effect on [ideas, topic] (lines 24-36): App hands over a new topic  *)
(* or a new ideas array of n ideas                                         *)
WidgetReset_KeepsMessages(w, n) ==
    [w EXCEPT !.ideas = n, !.chatSession = @ + 1, !.messages = Append(@, Greeting(n))]

WidgetReset(w, n) ==
    [w EXCEPT !.ideas = n, !.chatSession = @ + 1, !.messages = <<Greeting(n)>>]

WidgetPropsChange(n) ==
    /\ widget.chatSession < MaxSessions
    /\ widget' = WidgetReset(widget, n)
    /\ UNCHANGED <<storeVars, seqVars, tabVars, appVars, archVars>>

(* handleSendMessage to its await (lines 38-48); the button is disabled    *)
(* while loading (line 122) and the message typed is not blank             *)
WidgetHandleSendMessage ==
    /\ ~widget.loading
    /\ widget.sends < MaxSends
    /\ widget' = [widget EXCEPT !.messages = Append(@, UserMessage),
                                !.loading = TRUE,
                                !.lastSend = "pending",
                                !.sends = @ + 1]
    /\ UNCHANGED <<storeVars, seqVars, tabVars, appVars, archVars>>

\* handleSendMessage after its await (lines 49-55)
WidgetSendContinue(w, resp) ==
    [w EXCEPT !.messages = Append(@, ModelMessage(
                  IF resp = "fail" THEN "Sorry, I encountered an error."
                  ELSE TextOr(resp, "answer", "I'm having trouble connecting. Try again?"))),
              !.loading = FALSE,
              !.lastSend = resp]

WidgetSendSettle(resp) ==
    /\ widget.lastSend = "pending"
    /\ widget' = WidgetSendContinue(widget, resp)
    /\ UNCHANGED <<storeVars, seqVars, tabVars, appVars, archVars>>

NextWidget ==
    \/ \E n \in 0..MaxBatch : WidgetPropsChange(n)
    \/ WidgetHandleSendMessage
    \/ \E resp \in Responses : WidgetSendSettle(resp)

SpecWidget == Init /\ [][NextWidget]_vars

(***************************************************************************)
(* The busy flags.  One component is exercised at a time, the others stay  *)
(* as they were mounted; in ArchitectureView either the code tab or the    *)
(* assistant is used.  A request that has been sent ends: the provider     *)
(* answers or the request fails, which is the fairness stated.             *)
(***************************************************************************)
AppQuiet == app = AppMounted(storage, medium)
ArchQuiet == arch = ArchInitial
WidgetQuiet == widget = WidgetMounted

GenerateSettle == (\E ids \in IdDraws : GenerateResolve(ids)) \/ GenerateReject

FetchSettles ==
    \E fn \in {"generateArchitecturePlan", "findResources"}, resp \in Responses : FetchSettle(fn, resp)

ImageSettles == \E resp \in Responses : ImageSettle(resp)

CodeSettles == \E resp \in Responses : CodeSettle(resp)

ArchSendSettles == \E resp \in Responses : ArchSendSettle(resp)

WidgetSendSettles == \E resp \in Responses : WidgetSendSettle(resp)

OnlyApp == ArchQuiet /\ WidgetQuiet
OnlyArch == AppQuiet /\ WidgetQuiet
OnlyWidget == AppQuiet /\ ArchQuiet

NextBusy ==
    \/ OnlyApp /\ HandleGenerate
    \/ OnlyApp /\ \E ids \in IdDraws : GenerateResolve(ids)
    \/ OnlyApp /\ GenerateReject
    \/ OnlyArch /\ Mount
    \/ OnlyArch /\ Unmount
    \/ OnlyArch /\ FetchSettles
    \/ OnlyArch /\ ImageSettles
    \/ OnlyArch /\ arch.sends = 0 /\ HandleGenerateCode
    \/ OnlyArch /\ CodeSettles
    \/ OnlyArch /\ calls["generateStarterCode"] = IdleCall /\ ArchHandleSendMessage
    \/ OnlyArch /\ ArchSendSettles
    \/ OnlyWidget /\ \E n \in 0..MaxBatch : WidgetPropsChange(n)
    \/ OnlyWidget /\ WidgetHandleSendMessage
    \/ OnlyWidget /\ WidgetSendSettles

SpecBusy ==
    /\ Init /\ [][NextBusy]_vars
    /\ WF_vars(GenerateSettle)
    /\ WF_vars(FetchSettles)
    /\ WF_vars(ImageSettles)
    /\ WF_vars(CodeSettles)
    /\ WF_vars(ArchSendSettles)
    /\ WF_vars(WidgetSendSettles)

(* What the three tabs show (lines 243, 300-323, 334-340)                  *)
BlueprintTab(a) == IF a.plan # Null THEN a.plan ELSE ""

CodeTab(a) ==
    IF a.codeLoading THEN "Thinking..."
    ELSE IF a.generatedCode # Null THEN a.generatedCode
    ELSE "Ready to build? Click the button above"

ResourcesTab(a) ==
    IF a.resources.datasetsContent \notin {Null, ""} THEN a.resources.datasetsContent
    ELSE "No specific dataset recommendations generated."

----------------------------------------------------------------------------
(* Vocabulary of the properties *)

\* what getSavedProjects() hands to a caller for a stored value, now
Collection(st) == GetSavedProjects(st, medium).v

\* a sequence of ideas
IsCollection(v) ==
    v.kind = "array" /\ \A i \in 1..Len(v.elems) : v.elems[i].kind = "object"

HasId(v, id) ==
    v.kind = "array" /\ \E i \in 1..Len(v.elems) :
        v.elems[i].kind = "object" /\ v.elems[i].id = id

CountId(v, id) ==
    Cardinality({i \in 1..Len(v.elems) : v.elems[i].kind = "object" /\ v.elems[i].id = id})

NoDup(v) ==
    \A i, j \in 1..Len(v.elems) : i # j => v.elems[i].id # v.elems[j].id

----------------------------------------------------------------------------
(* C1: whatever saveProject and removeProject calls were made on a store   *)
(* that started empty, the stored collection holds at most one item with   *)
(* any given id.                                                           *)
C1_UniqueIds ==
    LET v == GetSavedProjects(storage, "ok").v IN IsCollection(v) /\ NoDup(v)

\* a save of an id that is already stored, among other items, was attempted
C1_Witness ==
    /\ call.op = "saveProject" /\ medium = "ok"
    /\ HasId(Collection(pre), call.id)
    /\ Len(Collection(storage).elems) >= 2

(* C2: a saveProject(item) that returns true leaves item at index 0,       *)
(* followed by the items saved before in their prior order; so A then B    *)
(* on an empty store gives [B, A].                                         *)
C2_SavePrepends ==
    (call.op = "saveProject" /\ ret.b) =>
        /\ Collection(pre).kind = "array"
        /\ Collection(storage) = JArray(<<Idea(call)>> \o Collection(pre).elems)
        /\ (Len(Collection(pre).elems) = 1 =>
                Collection(storage).elems = <<Idea(call), Collection(pre).elems[1]>>)

\* a third item was saved in front of two others
C2_Witness ==
    /\ call.op = "saveProject" /\ ret.b
    /\ Len(Collection(pre).elems) = 2
    /\ Collection(storage).elems[1] = Idea(call)

(* C3: saveProject(item) with item's id already in the collection returns  *)
(* false, calls setItem not once and leaves the stored value as it was; a  *)
(* duplicate-free collection still holds exactly one copy of the id.       *)
C3_DuplicateSaveIsNoOp ==
    (call.op = "saveProject" /\ HasId(Collection(pre), call.id)) =>
        /\ ret = RetBool(FALSE, FALSE)
        /\ writes = 0
        /\ storage = pre
        /\ (NoDup(Collection(pre)) => CountId(Collection(storage), call.id) = 1)

\* the same id was saved again with another payload
C3_Witness ==
    /\ call.op = "saveProject" /\ medium = "ok"
    /\ IsCollection(Collection(pre)) /\ NoDup(Collection(pre))
    /\ HasId(Collection(pre), call.id)
    /\ \E i \in 1..Len(Collection(pre).elems) :
            Collection(pre).elems[i].id = call.id /\ Collection(pre).elems[i] # Idea(call)

(* C4: with the storage usable, removeProject(id) for an id present in the *)
(* collection leaves the collection without any item of that id and with  *)
(* all other items in their prior order.                                   *)
C4_RemoveFilters ==
    (/\ call.op = "removeProject" /\ medium = "ok"
     /\ IsCollection(Collection(pre)) /\ HasId(Collection(pre), call.id)) =>
        /\ Collection(storage) =
                JArray(SelectSeq(Collection(pre).elems, LAMBDA e : e.id # call.id))
        /\ ~HasId(Collection(storage), call.id)
        /\ writes = 1

\* two items of the id were removed at once and another item was kept
C4_Witness ==
    /\ call.op = "removeProject" /\ medium = "ok"
    /\ IsCollection(Collection(pre))
    /\ CountId(Collection(pre), call.id) = 2
    /\ Len(Collection(storage).elems) >= 1

(* C5: removeProject(id) for an id that is not in the collection leaves    *)
(* getSavedProjects() as it was: the same items in the same order.         *)
C5_RemoveAbsentKeepsList ==
    (call.op = "removeProject" /\ ~HasId(Collection(pre), call.id)) =>
        Collection(storage) = Collection(pre)

\* an absent id was removed from a collection of two items, and written back
C5_Witness ==
    /\ call.op = "removeProject" /\ medium = "ok" /\ writes = 1
    /\ ~HasId(Collection(pre), call.id)
    /\ Len(Collection(pre).elems) = 2

(* C6: with the storage usable, from any prior stored value,               *)
(* isProjectSaved(id) is true right after saveProject of an item with that *)
(* id returns and false right after removeProject(id) returns.             *)
C6_SavedAfterSaveNotAfterRemove ==
    /\ (call.op = "saveProject" /\ medium = "ok") =>
            IsProjectSaved(storage, medium, call.id) = [threw |-> FALSE, b |-> TRUE]
    /\ (call.op = "removeProject" /\ medium = "ok") =>
            IsProjectSaved(storage, medium, call.id) = [threw |-> FALSE, b |-> FALSE]

\* a text that is the serialized form of a sequence of ideas
IsSerializedCollection(st) ==
    st.present /\ Parse(st.text).ok /\ IsCollection(Parse(st.text).v)

(* C7: getSavedProjects() returns a sequence, and the empty one whenever   *)
(* the key is absent or the stored text is not a serialized collection     *)
(* (text that is not JSON, or JSON that is not an array of items).         *)
C7_MalformedReadsAsEmpty ==
    call.op = "getSavedProjects" =>
        /\ ~ret.threw
        /\ ret.v.kind = "array"
        /\ (~IsSerializedCollection(pre) => ret.v = EmptyArray)

(* C8: when reading the medium raises, getSavedProjects() returns the      *)
(* empty sequence and raises nothing.                                      *)
C8_FailingReadGivesEmpty ==
    (call.op = "getSavedProjects" /\ medium = "denied") =>
        ret = RetJson(FALSE, EmptyArray)

\* the list was asked for while the medium refused to give its two items
C8_Witness ==
    /\ call.op = "getSavedProjects" /\ medium = "denied"
    /\ IsSerializedCollection(storage)
    /\ Len(Parse(storage.text).v.elems) = 2

(* C9: no store operation ever hands an exception to its caller, whatever  *)
(* the medium and the stored value are.                                    *)
C9_NeverThrows == ~ret.threw

(* C10: when setItem fails the stored value stays as it was before the     *)
(* call, saveProject returns false and removeProject returns normally;     *)
(* saveProject returns true only when the id was absent and the write      *)
(* went through.                                                           *)
C10_FailedWriteKeepsStorage ==
    /\ (call.op \in {"saveProject", "removeProject"} /\ writes = 1 /\ medium # "ok") =>
            /\ storage = pre
            /\ ~ret.threw
            /\ (call.op = "saveProject" => ~ret.b)
    /\ (call.op = "saveProject" /\ ret.b) =>
            /\ medium = "ok"
            /\ writes = 1
            /\ ~HasId(Collection(pre), call.id)
            /\ storage # pre

\* a save failed on a full medium that holds two items
C10_Witness ==
    /\ call.op = "saveProject" /\ medium = "full" /\ writes = 1
    /\ IsSerializedCollection(pre)
    /\ Len(Parse(pre.text).v.elems) = 2

(* C11: removeProject(id) calls setItem exactly once on every call whose   *)
(* read succeeds, also when no item matches id; saveProject calls it       *)
(* exactly once when the id is absent and not at all when it is present.   *)
C11_WriteCounts ==
    /\ (call.op = "removeProject" /\ medium # "denied") => writes = 1
    /\ (call.op = "saveProject" /\ medium # "denied") =>
            writes = IF HasId(Collection(pre), call.id) THEN 0 ELSE 1

\* the collections the round trip is tried on
MaxLen == 2
Collections == UNION {[1..n -> Ideas] : n \in 0..MaxLen}

(* C12: for every collection c, getSavedProjects() on a store that holds   *)
(* the serialized form of c returns c, item by item and in order.          *)
C12_RoundTrip ==
    (call.op = "getSavedProjects" /\ medium = "ok") =>
        \A c \in Collections :
            storage = Stored(Stringify(c)) => ret = RetJson(FALSE, JArray(c))

\* a serialized collection of two items was read back
C12_Witness ==
    /\ call.op = "getSavedProjects" /\ medium = "ok"
    /\ \E c \in Collections : Len(c) = 2 /\ storage = Stored(Stringify(c))

(* C13: getSavedProjects and isProjectSaved never write to storage, and    *)
(* what isProjectSaved(id) returns is true exactly when the collection     *)
(* getSavedProjects() returns holds an item of that id.                    *)
C13_PureReads ==
    /\ call.op \in {"getSavedProjects", "isProjectSaved"} =>
            storage = pre /\ writes = 0
    /\ (call.op = "isProjectSaved" /\ ~ret.threw) =>
            (ret.b <=> HasId(Collection(storage), call.id))

\* isProjectSaved answered true on a collection of two items
C13_Witness ==
    /\ call.op = "isProjectSaved" /\ ret.b /\ medium = "ok"
    /\ IsCollection(Collection(storage))
    /\ Len(Collection(storage).elems) = 2

\* a stored text JSON.parse rejects
Unparsable(st) == st.present /\ ~Parse(st.text).ok

(* C14: when the stored text cannot be parsed, a saveProject(item) whose   *)
(* write succeeds returns true and leaves exactly [item] stored, and a     *)
(* removeProject(id) whose write succeeds leaves the empty collection.     *)
C14_UnparsableIsDiscarded ==
    /\ (call.op = "saveProject" /\ medium = "ok" /\ Unparsable(pre)) =>
            /\ ret = RetBool(FALSE, TRUE)
            /\ storage = Stored(Stringify(<<Idea(call)>>))
            /\ Collection(storage) = JArray(<<Idea(call)>>)
    /\ (call.op = "removeProject" /\ medium = "ok" /\ Unparsable(pre)) =>
            /\ storage = Stored(Stringify(<<>>))
            /\ Collection(storage) = EmptyArray

\* an item was saved over a text that is not JSON
C14_Witness ==
    /\ call.op = "saveProject" /\ medium = "ok"
    /\ pre = Stored(<<TWord>>)
    /\ writes = 1

\* an item whose saveProject returned true is not stored, and no
\* removeProject of its id was ever called
LostUpdate ==
    \E id \in hist.acked \ hist.removed : ~HasId(GetSavedProjects(storage, "ok").v, id)

(* C15: with two tabs on the same key, a write of one tab can fall between *)
(* the read and the write of an operation of the other, and then an item   *)
(* whose saveProject returned true can be missing from storage without any *)
(* removeProject of its id; it goes missing in no other way.               *)
C15_LostUpdateOnlyByInterleaving == LostUpdate => hist.stale

\* the lost update, with no removeProject called at all
C15_Witness == LostUpdate /\ hist.removed = {} /\ hist.stale

(* C16 as claimed: right after a failed idea generation an error has been  *)
(* shown, the ideas list is empty, the selection is cleared and loading is *)
(* false.                                                                  *)
C16_FailureLeavesNothing ==
    app.event = "generateFailed" =>
        /\ app.alert
        /\ app.ideas = <<>>
        /\ app.selectedIdea = NullElem
        /\ ~app.loading

(* C16 as amended: right after a failed idea generation an error has been  *)
(* shown, the ideas list is empty and loading is false; handleGenerate     *)
(* clears the selection when the request starts, and after the failure     *)
(* selectedIdea is null or a saved project the user opened meanwhile.      *)
C16_FailureLeavesNoResults ==
    /\ app.event = "generateFailed" =>
            /\ app.alert
            /\ app.ideas = <<>>
            /\ ~app.loading
            /\ \/ app.selectedIdea = NullElem
               \/ \E i \in 1..Len(app.savedIdeas.elems) :
                    app.savedIdeas.elems[i] = app.selectedIdea
    /\ app.event = "handleGenerate" =>
            app.ideas = <<>> /\ app.selectedIdea = NullElem /\ app.loading
    /\ app.pending => app.ideas = <<>>

\* a generation failed while the user had a saved project open
C16_Witness ==
    /\ app.event = "generateFailed"
    /\ app.selectedIdea # NullElem

(* C20: the ids generateProjectIdeas assigns are unique: no two ideas it   *)
(* returned share an id.                                                   *)
C20_GeneratedIdsUnique ==
    \A i, j \in 1..Len(app.ideas) : i # j => app.ideas[i].id # app.ideas[j].id

(* C17: one call of a capability function makes at most two provider       *)
(* requests: the first is the primary request; a second one exists only    *)
(* when the first has failed, and it is the fallback request, a different  *)
(* request from the first; a call ends after a request that did not fail,  *)
(* or after the second request.                                            *)
C17_PrimaryThenOneFallback ==
    \A fn \in Capabilities :
        LET c == calls[fn]
            n == Len(c.reqs)
        IN  /\ n <= 2
            /\ n >= 1 => c.reqs[1].model = PrimaryModel(fn)
            /\ n = 2 => /\ c.reqs[1].resp = "fail"
                        /\ c.reqs[2].model = FallbackModel(fn)
                        /\ c.reqs[2].model # c.reqs[1].model
            /\ c.pc = "done" => /\ n >= 1
                                /\ c.reqs[n].resp # "pending"
                                /\ c.reqs[n].resp = "fail" => n = 2
            /\ Awaiting(c) => n >= 1 /\ c.reqs[n].resp = "pending"

\* a call that needed the fallback, and one whose primary gave no image
C17_Witness ==
    /\ calls["generateStarterCode"].pc = "done"
    /\ Len(calls["generateStarterCode"].reqs) = 2
    /\ calls["generateProjectImage"].pc = "done"
    /\ Len(calls["generateProjectImage"].reqs) = 1
    /\ calls["generateProjectImage"].reqs[1].resp = "empty"

\* both requests of the call have failed
TotalFailure(c) == c.pc = "done" /\ Len(c.reqs) = 2 /\ c.reqs[2].resp = "fail"

\* every text of the view or of gemini.ts that tells of a failure
FailureMessages ==
    { "Failed to generate architecture plan.", "Failed to generate starter code.",
      "Could not retrieve resources.", "No plan generated.", "Failed to generate code.",
      "No resources found.", "No specific dataset recommendations generated.",
      "Failed to load image" }

(* C18: while the view is on screen, once the plan, the starter code or    *)
(* the resources have failed on both requests and the handler has ended,   *)
(* the tab of that capability shows a failure message.                     *)
C18_TotalFailureIsShown ==
    OnScreen(arch) =>
        /\ TotalFailure(calls["generateArchitecturePlan"]) /\ arch.fetch = "settled"
              => BlueprintTab(arch) \in FailureMessages
        /\ TotalFailure(calls["generateStarterCode"])
              => CodeTab(arch) \in FailureMessages
        /\ TotalFailure(calls["findResources"]) /\ arch.fetch = "settled"
              => ResourcesTab(arch) \in FailureMessages

\* the texts with which a chat says that sending failed
Apologies == {"Sorry, I encountered an error."}

\* the conversation ends with the user's message and an apology for it
FailureAnswered(messages, loading) ==
    /\ Len(messages) >= 2
    /\ messages[Len(messages)].role = "model"
    /\ messages[Len(messages)].text \in Apologies
    /\ messages[Len(messages) - 1].role = "user"
    /\ ~loading

(* C19: in both chats, once the latest send has failed, the conversation   *)
(* ends with the user's message followed by an apology of the model role,  *)
(* and the chat is no longer busy, so that the user can send again.        *)
C19_FailedSendGetsApology ==
    /\ OnScreen(arch) /\ arch.lastSend = "fail"
          => FailureAnswered(arch.messages, arch.chatLoading)
    /\ widget.lastSend = "fail"
          => FailureAnswered(widget.messages, widget.loading)

(* C21: in one execution context, from an empty store and with every      *)
(* write succeeding, after any sequence of saveProject and removeProject    *)
(* calls the store reads as the abstract sequence run on the same calls,    *)
(* and what getSavedProjects hands back is that sequence; no operation is   *)
(* ever in progress between two calls.                                      *)
C21_RefinesSequence ==
    /\ Collection(storage) = JArray(abs)
    /\ call.op = "getSavedProjects" => ret = RetJson(FALSE, JArray(abs))
    /\ \A t \in Tabs : tabs[t] = IdleTab

\* a removal from a sequence of three that leaves two, in the order they had
C21_Witness ==
    /\ call.op = "removeProject"
    /\ Len(Collection(pre).elems) = 3
    /\ Len(abs) = 2
    /\ abs[1].id > abs[2].id

\* the call has returned a value
Succeeded(c) == c.pc = "done" /\ c.out.kind = "value"

\* the call has thrown
Failed(c) == c.pc = "done" /\ c.out.kind = "throw"

\* generateImage has been called in this view
ImageStarted == calls["generateProjectImage"].pc # "idle" \/ arch.imageLoading

(* C22: in ArchitectureView, plan, resources and chat session are set and  *)
(* image generation is started only when generateArchitecturePlan and       *)
(* findResources have both returned; as long as one of them has failed or   *)
(* not returned, none of the four has happened.  On screen, once both have  *)
(* returned, all four have happened.                                        *)
C22_AllOrNothing ==
    LET both == /\ Succeeded(calls["generateArchitecturePlan"])
                /\ Succeeded(calls["findResources"])
        any == \/ arch.plan # Null
               \/ arch.resources # NullResources
               \/ arch.chatSession
               \/ ImageStarted
        all == /\ arch.plan = calls["generateArchitecturePlan"].out.v
               /\ arch.resources = ResourceData(calls["findResources"].out.v,
                                                calls["findResources"].out.links)
               /\ arch.chatSession
               /\ ImageStarted
    IN  /\ any => both /\ all
        /\ both /\ OnScreen(arch) => all

\* the plan has failed after the resources were found: nothing is shown of them
C22_Witness ==
    /\ OnScreen(arch)
    /\ Failed(calls["generateArchitecturePlan"])
    /\ Succeeded(calls["findResources"])
    /\ calls["findResources"].out.v = "resources"
    /\ arch.fetch = "settled"
    /\ arch.resources = NullResources
    /\ ~ImageStarted

(* C23: when both requests of a call have failed, generateArchitecturePlan *)
(* and generateStarterCode have thrown an error; findResources has returned *)
(* a ResourceData with a placeholder text and no grounding links;           *)
(* generateProjectImage has returned null; and these two never throw.       *)
C23_TotalFailureOutcomes ==
    /\ \A fn \in {"generateArchitecturePlan", "generateStarterCode"} :
           TotalFailure(calls[fn]) => calls[fn].out.kind = "throw"
    /\ TotalFailure(calls["generateArchitecturePlan"])
          => calls["generateArchitecturePlan"].out.v = "Failed to generate architecture plan."
    /\ TotalFailure(calls["generateStarterCode"])
          => calls["generateStarterCode"].out.v = "Failed to generate starter code."
    /\ TotalFailure(calls["findResources"])
          => calls["findResources"].out = ReturnData(ResourceData("Could not retrieve resources.", <<>>))
    /\ TotalFailure(calls["generateProjectImage"])
          => calls["generateProjectImage"].out = Return(Null)
    /\ \A fn \in {"findResources", "generateProjectImage"} : calls[fn].out.kind # "throw"

\* every request of the resources and of the starter code has failed
C23_Witness ==
    /\ TotalFailure(calls["findResources"])
    /\ TotalFailure(calls["generateStarterCode"])

\* nothing of a fetch has been applied to instance a, whose calls are cs
NothingApplied(a, cs) ==
    /\ a.plan = Null
    /\ a.resources = NullResources
    /\ a.fetchedFor = 0
    /\ ~a.chatSession
    /\ cs["generateProjectImage"] = IdleCall /\ ~a.imageLoading
    /\ a.loading

(* C24: a fetch that was pending when its instance left the screen (Back,  *)
(* or Back and another idea) applies nothing, whatever its calls return     *)
(* and whenever: plan, resources, chat session are not set, generateImage   *)
(* is not called and loading is not reset; and what the view on screen      *)
(* shows of plan, resources and chat session was fetched for its own idea.  *)
C24_SupersededFetchIsDropped ==
    /\ "fetch" \in arch.superseded => NothingApplied(arch, calls)
    /\ "fetch" \in prev.arch.superseded => NothingApplied(prev.arch, prev.calls)
    /\ arch.fetchedFor \in {0, arch.idea}
    /\ (arch.plan # Null \/ arch.resources # NullResources \/ arch.chatSession)
          => arch.fetchedFor = arch.idea

(* the fetch of the first idea and the fetch of the second were both       *)
(* pending when their views left the screen, and both have ended since,    *)
(* the second with a plan and resources                                    *)
C24_Witness ==
    /\ arch.idea = 2 /\ arch.phase = "unmounted"
    /\ "fetch" \in arch.superseded /\ arch.fetch = "settled"
    /\ Succeeded(calls["generateArchitecturePlan"]) /\ Succeeded(calls["findResources"])
    /\ "fetch" \in prev.arch.superseded /\ prev.arch.fetch = "settled"

C26_RepliesFollowTheirQuestion ==
    /\ widget.messages[1].role = "model"
    /\ \A i \in 2..Len(widget.messages) :
           widget.messages[i].role = "model" => widget.messages[i - 1].role = "user"

C27_BusyFlagsAreReset ==
    /\ [](app.loading => app.pending)
    /\ [](OnScreen(arch) =>
            /\ arch.loading => arch.fetch = "pending"
            /\ arch.imageLoading => Awaiting(calls["generateProjectImage"])
            /\ arch.codeLoading => Awaiting(calls["generateStarterCode"])
            /\ arch.chatLoading => arch.lastSend = "pending")
    /\ [](widget.loading => widget.lastSend = "pending")
    /\ (app.loading ~> ~app.loading)
    /\ ((OnScreen(arch) /\ arch.loading) ~> ~(OnScreen(arch) /\ arch.loading))
    /\ ((OnScreen(arch) /\ arch.imageLoading) ~> ~(OnScreen(arch) /\ arch.imageLoading))
    /\ ((OnScreen(arch) /\ arch.codeLoading) ~> ~(OnScreen(arch) /\ arch.codeLoading))
    /\ ((OnScreen(arch) /\ arch.chatLoading) ~> ~(OnScreen(arch) /\ arch.chatLoading))
    /\ (widget.loading ~> ~widget.loading)

\* on screen, the starter code has failed on both requests and the flag is down
C27_Witness ==
    /\ OnScreen(arch)
    /\ Failed(calls["generateStarterCode"])
    /\ ~arch.codeLoading
    /\ ~arch.loading /\ ~arch.imageLoading

(* C28: every step that is toggleSave, handleRemove or a change of view    *)
(* leaves savedIdeas equal to what getSavedProjects() returns on the store *)
(* as that step leaves it.                                                 *)
C28_SavedIdeasFollowStorage ==
    [][ (app'.view # app.view \/ call'.op \in {"toggleSave", "handleRemove"})
          => app'.savedIdeas = GetSavedProjects(storage', medium').v ]_vars

(* C29: with writes succeeding, toggleSave(idea) flips whether idea.id is  *)
(* saved: a saved id is removed, an id not saved is added with the idea at *)
(* the front; the other saved items are the same, in the same order.       *)
C29_ToggleFlipsOneId ==
    call.op = "toggleSave" =>
        LET before == Collection(pre)
            after == Collection(storage)
        IN  /\ HasId(after, call.id) # HasId(before, call.id)
            /\ HasId(before, call.id) => after.elems = AbsRemove(before.elems, call.id)
            /\ ~HasId(before, call.id) => after.elems = <<Idea(call)>> \o before.elems
            /\ AbsRemove(after.elems, call.id) = AbsRemove(before.elems, call.id)

\* an idea saved beside another one is toggled off: the other one stays
C29_Witness ==
    /\ call.op = "toggleSave"
    /\ HasId(Collection(pre), call.id)
    /\ Len(Collection(pre).elems) = 2
    /\ Len(Collection(storage).elems) = 1
    /\ ret = RetVoid(FALSE)
====
